---- MODULE Spec2Model ----
(***************************************************************************)
(* GroceryBot (src/index.js): a Telegram bot keeping one shopping list in  *)
(* shopping-list.json and a per-chat add-item dialogue in addItemStates.   *)
(*                                                                         *)
(* Every listener is an async function.  It runs synchronously up to its   *)
(* first I/O (file read, file write, Bot API call) and is resumed when     *)
(* that I/O completes; between two I/O points it runs without              *)
(* interruption.  A handler in flight is a record of `inflight` holding    *)
(* its position (pc) and its local variables.                              *)
(***************************************************************************)
EXTENDS Integers, Sequences, FiniteSets, TLC

VARIABLES
    file,           \* content of shopping-list.json
    addItemStates,  \* the Map of line 178: chat id -> state object, or NoState
    inflight,       \* the async handlers that are waiting for an I/O completion
    out,            \* Bot API calls made since the latest update was dispatched
    nUpdates,       \* number of updates dispatched so far
    scenario        \* the updates a scripted behaviour dispatches (SpecScenario)

vars == <<file, addItemStates, inflight, out, nUpdates, scenario>>

(***************************************************************************)
(* Bounds of the model.                                                    *)
(***************************************************************************)
MaxUpdates == 3     \* updates dispatched in one behaviour, handled one at a time
MaxArrivals == 2    \* updates dispatched in one behaviour, handled as they arrive
MaxFaultyUpdates == 2   \* updates dispatched in one behaviour of SpecFaults

(***************************************************************************)
(* JavaScript values.                                                      *)
(***************************************************************************)
Undefined == [type |-> "undefined"]
JsString(chars) == [type |-> "string", chars |-> chars]
JsBool(b) == [type |-> "boolean", val |-> b]
NaN == [type |-> "number", nan |-> TRUE, n |-> 0]
Num(n) == [type |-> "number", nan |-> FALSE, n |-> n]

IsString(v) == v.type = "string"
IsBool(v) == v.type = "boolean"

\* ToBoolean, as used by `!x`, `a ? b : c` and `&&`.
Truthy(v) ==
    CASE v.type = "undefined" -> FALSE
      [] v.type = "boolean" -> v.val
      [] v.type = "string" -> v.chars # <<>>
      [] v.type = "number" -> ~v.nan /\ v.n # 0
      [] OTHER -> TRUE

\* Property read: a key an object does not have reads as undefined.
Get(obj, key) == IF key \in DOMAIN obj THEN obj[key] ELSE Undefined

\* Property write on an object: adds the key or replaces its value.
Put(obj, key, val) ==
    [k \in (DOMAIN obj) \cup {key} |-> IF k = key THEN val ELSE obj[k]]

(***************************************************************************)
(* Strings are sequences of characters.                                    *)
(***************************************************************************)
StartsWithAt(s, lit, i) ==
    /\ i + Len(lit) - 1 <= Len(s)
    /\ \A j \in 1..Len(lit) : s[i + j - 1] = lit[j]

\* String.prototype.startsWith
StartsWith(s, lit) == StartsWithAt(s, lit, 1)

\* RegExp.prototype.exec of the pattern anchored at the start (/^\/add/)
MatchesAtStart(lit, s) == StartsWithAt(s, lit, 1)

\* RegExp.prototype.exec of an unanchored literal pattern: a match anywhere.
RegexMatches(lit, s) == \E i \in 1..Len(s) : StartsWithAt(s, lit, i)

\* data.replace(lit, ''): the first occurrence of lit is removed.
FirstAt(s, lit) == CHOOSE i \in 1..Len(s) :
    /\ StartsWithAt(s, lit, i)
    /\ \A j \in 1..(i - 1) : ~StartsWithAt(s, lit, j)
ReplaceFirst(s, lit) ==
    IF ~RegexMatches(lit, s) THEN s
    ELSE LET i == FirstAt(s, lit)
         IN  SubSeq(s, 1, i - 1) \o SubSeq(s, i + Len(lit), Len(s))

Digits == <<"0", "1", "2", "3", "4", "5", "6", "7", "8", "9">>
IsDigit(ch) == \E d \in 1..10 : Digits[d] = ch
DigitVal(ch) == (CHOOSE d \in 1..10 : Digits[d] = ch) - 1
IsSpace(ch) == ch = " "

\* String(n) of a non-negative integer, as interpolated into callback_data.
RECURSIVE DecimalOf(_)
DecimalOf(n) ==
    IF n < 10 THEN <<Digits[n + 1]>>
    ELSE DecimalOf(n \div 10) \o <<Digits[(n % 10) + 1]>>

RECURSIVE SkipSpaces(_)
SkipSpaces(s) ==
    IF s # <<>> /\ IsSpace(Head(s)) THEN SkipSpaces(Tail(s)) ELSE s

RECURSIVE DigitPrefix(_)
DigitPrefix(s) ==
    IF s # <<>> /\ IsDigit(Head(s)) THEN <<Head(s)>> \o DigitPrefix(Tail(s))
    ELSE <<>>

RECURSIVE DigitsValue(_, _)
DigitsValue(ds, acc) ==
    IF ds = <<>> THEN acc
    ELSE DigitsValue(Tail(ds), 10 * acc + DigitVal(Head(ds)))

\* parseInt(string) with no radix: leading white space is skipped, a sign is
\* read, then the longest prefix of decimal digits; NaN when there is none.
\* (The "0x" hexadecimal prefix is outside the alphabet of the modelled tokens.)
parseInt(s) ==
    LET t == SkipSpaces(s)
        neg == t # <<>> /\ Head(t) = "-"
        u == IF t # <<>> /\ Head(t) \in {"-", "+"} THEN Tail(t) ELSE t
        ds == DigitPrefix(u)
    IN  IF ds = <<>> THEN NaN
        ELSE Num(IF neg THEN 0 - DigitsValue(ds, 0) ELSE DigitsValue(ds, 0))

\* The relational operators on numbers: every comparison with NaN is false.
JsLess(a, b) == ~a.nan /\ ~b.nan /\ a.n < b.n
JsGreaterEq(a, b) == ~a.nan /\ ~b.nan /\ a.n >= b.n

(***************************************************************************)
(* Arrays are sequences; JavaScript positions are 0-based.                 *)
(***************************************************************************)
\* items[index]: an index that is no position of the array reads undefined.
ElementAt(items, index) ==
    IF ~index.nan /\ index.n >= 0 /\ index.n < Len(items)
    THEN items[index.n + 1]
    ELSE Undefined

\* ToIntegerOrInfinity followed by the clamping of Array.prototype.splice:
\* NaN counts as 0, a negative start counts from the end.
SpliceStart(items, index) ==
    IF index.nan THEN 0
    ELSE IF index.n < 0 THEN (IF Len(items) + index.n < 0 THEN 0 ELSE Len(items) + index.n)
    ELSE IF index.n > Len(items) THEN Len(items)
    ELSE index.n

\* items.pop() in the place of items.splice(index, 1)
SpliceLast(items, index) == SubSeq(items, 1, Len(items) - 1)

\* items.splice(index, 1): the array after the call.
Splice1(items, index) ==
    LET start == SpliceStart(items, index)
    IN  IF start >= Len(items) THEN items
        ELSE SubSeq(items, 1, start) \o SubSeq(items, start + 2, Len(items))

\* items.unshift(item) in the place of items.push(item)
PushFront(items, item) == <<item>> \o items

\* items.push(item)
Push(items, item) == Append(items, item)

(***************************************************************************)
(* The category registry (lines 26-37), in insertion order.  A glyph is    *)
(* named here by what it depicts.                                          *)
(***************************************************************************)
categories == <<
    <<<<"p", "r", "o", "t", "e", "i", "n", "s">>, "meat">>,
    <<<<"h", "e", "a", "l", "t", "h", "y", "_", "c", "a", "r", "b", "s">>, "rice">>,
    <<<<"v", "i", "t", "a", "m", "i", "n", "s">>, "pill">>,
    <<<<"h", "e", "a", "l", "t", "h", "y", "_", "f", "a", "t", "s">>, "avocado">>,
    <<<<"m", "e", "a", "l", "_", "p", "r", "e", "p">>, "bento">>,
    <<<<"f", "r", "u", "i", "t", "s">>, "apple">>,
    <<<<"v", "e", "g", "e", "t", "a", "b", "l", "e", "s">>, "broccoli">>,
    <<<<"o", "t", "h", "e", "r">>, "package">>,
    <<<<"i", "k", "e", "a">>, "flag_se">>
>>

CategoryKeys == {categories[i][1] : i \in 1..Len(categories)}

\* categories[key]: the glyph, or undefined for a key the registry lacks
\* (an undefined key is looked up as the string "undefined").
GlyphOf(key) ==
    IF key.type = "string" /\ key.chars \in CategoryKeys
    THEN LET i == CHOOSE j \in 1..Len(categories) : categories[j][1] = key.chars
         IN  JsString(<<categories[i][2]>>)
    ELSE Undefined

(***************************************************************************)
(* String literals of the source.                                          *)
(***************************************************************************)
CmdStart == <<"/", "s", "t", "a", "r", "t">>
CmdHelp == <<"/", "h", "e", "l", "p">>
CmdCategories == <<"/", "c", "a", "t", "e", "g", "o", "r", "i", "e", "s">>
CmdList == <<"/", "l", "i", "s", "t">>
CmdAdd == <<"/", "a", "d", "d">>
CmdRemove == <<"/", "r", "e", "m", "o", "v", "e">>
CmdClear == <<"/", "c", "l", "e", "a", "r">>
PrefixCategory == <<"c", "a", "t", "e", "g", "o", "r", "y", "_">>
PrefixRemove == <<"r", "e", "m", "o", "v", "e", "_">>
PrefixToggle == <<"t", "o", "g", "g", "l", "e", "_">>
Slash == <<"/">>

(***************************************************************************)
(* JSON.  A JSON text is modelled by its grammar: an object is the         *)
(* sequence of its members <<key, literal>> in the order they are written. *)
(***************************************************************************)
\* A serialiser that leaves the checked flag out.
ItemKeyOrderShort == <<"name", "quantity", "category">>

ItemKeyOrder == <<"name", "quantity", "category", "checked">>

JsonLiteral(v) ==
    IF v.type = "string" THEN [json |-> "string", chars |-> v.chars]
    ELSE IF v.val THEN [json |-> "true"] ELSE [json |-> "false"]

JsonValue(lit) ==
    CASE lit.json = "string" -> JsString(lit.chars)
      [] lit.json = "true" -> JsBool(TRUE)
      [] lit.json = "false" -> JsBool(FALSE)

\* JSON.stringify of one item: own keys in insertion order; a member whose
\* value is undefined is left out.
RECURSIVE StringifyMembers(_, _)
StringifyMembers(obj, keys) ==
    IF keys = <<>> THEN <<>>
    ELSE LET k == Head(keys)
             rest == StringifyMembers(obj, Tail(keys))
         IN  IF k \in DOMAIN obj /\ obj[k] # Undefined
             THEN <<(<<k, JsonLiteral(obj[k])>>)>> \o rest
             ELSE rest

\* JSON.stringify({ items }, null, 2)
JSONstringify(items) ==
    [kind |-> "json",
     items |-> [i \in 1..Len(items) |-> StringifyMembers(items[i], ItemKeyOrder)]]

\* JSON.parse of one object: a key for every member written.
ParseObject(members) ==
    [k \in {members[i][1] : i \in 1..Len(members)} |->
        JsonValue((CHOOSE m \in {members[i] : i \in 1..Len(members)} : m[1] = k)[2])]

\* JSON.parse(data) of a text JSON.stringify wrote.
JSONparse(text) ==
    [items |-> [i \in 1..Len(text.items) |-> ParseObject(text.items[i])]]

(***************************************************************************)
(* shopping-list.json                                                      *)
(***************************************************************************)
NoFile == [exists |-> FALSE]
EmptyText == [kind |-> "empty"]         \* "", what an opened-for-writing file holds
Garbage == [kind |-> "garbage"]         \* a text JSON.parse rejects, as "{ items"
NoItemsText == [kind |-> "no items"]    \* "{}": JSON, but no record of items
FileWith(text) == [exists |-> TRUE, text |-> text]

\* What JSON.parse("{}") returns: an object on which .items is undefined.
NoItemsObject == [type |-> "object"]

\* lines 40-48: a read that fails (ENOENT) and a text that does not parse
\* both end in the catch block; whatever JSON.parse accepts is returned as
\* it is (line 43).
loadShoppingList(f) ==
    IF ~f.exists THEN [items |-> <<>>]
    ELSE IF f.text.kind = "json" THEN JSONparse(f.text)
    ELSE IF f.text.kind = "no items" THEN NoItemsObject
    ELSE [items |-> <<>>]

\* lines 51-57: the text fs.writeFile is given.
saveShoppingList(items) == JSONstringify(items)


(***************************************************************************)
(* Conversation state objects (lines 183, 205-208, 222-223).               *)
(***************************************************************************)
AWAITING_NAME == JsString(<<"awaiting_name">>)
AWAITING_QUANTITY == JsString(<<"awaiting_quantity">>)
NoState == Undefined            \* what Map.get returns for a chat with no entry

Chats == {1, 2}

(***************************************************************************)
(* The program state as one record, and the handlers in flight.            *)
(*   kind   the listener the handler belongs to                            *)
(*   pc     "read"  fs.readFile is pending                                 *)
(*          "open"  fs.writeFile is pending and has not opened the file    *)
(*          "write" fs.writeFile has truncated the file, the data is not   *)
(*                  written yet                                            *)
(*          "reply" the remaining Bot API calls of the handler are pending *)
(*   state, text, index, removedItem, items: its local variables           *)
(*   calls  the Bot API calls it makes before it returns                   *)
(***************************************************************************)
State == [file |-> file, addItemStates |-> addItemStates,
          inflight |-> inflight, out |-> out]

Handler(kind, chat, pc) ==
    [kind |-> kind, chat |-> chat, pc |-> pc, state |-> NoState,
     text |-> Undefined, index |-> NaN, removedItem |-> Undefined,
     items |-> <<>>, calls |-> <<>>]

Spawn(s, h) == [s EXCEPT !.inflight = Append(@, h)]

DropAt(seq, i) == SubSeq(seq, 1, i - 1) \o SubSeq(seq, i + 1, Len(seq))

\* The handler at position i is replaced by h (it waits for its next I/O).
Await(s, i, h) == [s EXCEPT !.inflight[i] = h]

\* The handler at position i has returned.
Return(s, i) == [s EXCEPT !.inflight = DropAt(@, i)]

\* The handler at position i threw: the promise of the async listener is
\* rejected and nothing handles it.
Throw(s, i, error) ==
    [s EXCEPT !.inflight = DropAt(@, i),
              !.out = Append(@, [api |-> "unhandledRejection", error |-> error])]

(***************************************************************************)
(* Bot API calls.                                                          *)
(***************************************************************************)
SendMessage(chatId, text, options) ==
    [api |-> "sendMessage", chat |-> chatId, text |-> text, options |-> options]

\* lines 60-87, on the path where the transport accepts the message.
safeSendMessage(chatId, message, options) == SendMessage(chatId, message, options)

AnswerCallbackQuery(chatId, options) ==
    [api |-> "answerCallbackQuery", chat |-> chatId, options |-> options]

EditMessageText(chatId, text, options) ==
    [api |-> "editMessageText", chat |-> chatId, text |-> text, options |-> options]

NoOptions == [none |-> TRUE]
Markdown == [parse_mode |-> "Markdown"]

\* The template `${a} ${b} ...`: the interpolated values, in order.
Template(kind, parts) == [template |-> kind, parts |-> parts]
\* A text with nothing interpolated.
Text(literal) == Template(literal, <<>>)

\* lines 161-164 and 315-318: one button per item, bound to its position.
ToggleKeyboard(items) ==
    [i \in 1..Len(items) |->
        [text |-> Template("list item",
                    <<JsBool(Truthy(Get(items[i], "checked"))),
                      GlyphOf(Get(items[i], "category")),
                      Get(items[i], "name"), Get(items[i], "quantity")>>),
         callback_data |-> PrefixToggle \o DecimalOf(i - 1)]]

\* lines 256-259
RemoveKeyboard(items) ==
    [i \in 1..Len(items) |->
        [text |-> Template("remove item",
                    <<GlyphOf(Get(items[i], "category")),
                      Get(items[i], "name"), Get(items[i], "quantity")>>),
         callback_data |-> PrefixRemove \o DecimalOf(i - 1)]]

\* lines 186-188
CategoryKeyboard ==
    [i \in 1..Len(categories) |->
        [text |-> Template("category", <<categories[i][2], categories[i][1]>>),
         callback_data |-> PrefixCategory \o categories[i][1]]]

(***************************************************************************)
(* The listeners, up to their first I/O.                                   *)
(***************************************************************************)
Reply(kind, chat, calls) == [Handler(kind, chat, "reply") EXCEPT !.calls = calls]

\* lines 90-106
OnStart(s, chatId) ==
    Spawn(s, Reply("start", chatId,
        <<safeSendMessage(chatId, Text("Welcome to GroceryBot!"), Markdown)>>))

\* lines 114-135
OnHelp(s, chatId) ==
    Spawn(s, Reply("help", chatId,
        <<safeSendMessage(chatId, Text("GroceryBot Help"), Markdown)>>))

\* lines 138-145
OnCategories(s, chatId) ==
    Spawn(s, Reply("categories", chatId,
        <<safeSendMessage(chatId, Text("Available Categories:"), Markdown)>>))

\* lines 148-150
OnList(s, chatId) == Spawn(s, Handler("list", chatId, "read"))

\* /add without line 183
OnAddKeepsState(s, chatId) ==
    Spawn(s, Reply("add", chatId,
              <<SendMessage(chatId, Text("Select a category for the new item:"),
                            [reply_markup |-> CategoryKeyboard])>>))

\* lines 181-196
OnAdd(s, chatId) ==
    Spawn([s EXCEPT !.addItemStates[chatId] = [state |-> AWAITING_NAME]],
          Reply("add", chatId,
              <<SendMessage(chatId, Text("Select a category for the new item:"),
                            [reply_markup |-> CategoryKeyboard])>>))

\* lines 246-248
OnRemove(s, chatId) == Spawn(s, Handler("remove", chatId, "read"))

\* /clear without line 342
OnClearUnsaved(s, chatId) ==
    Spawn(s, Reply("clear", chatId,
        <<SendMessage(chatId, Text("Your shopping list has been cleared."), NoOptions)>>))

\* lines 340-342: saveShoppingList([]) has called fs.writeFile.
OnClear(s, chatId) ==
    Spawn(s, [Handler("clear", chatId, "open") EXCEPT !.items = <<>>])

\* lines 205-208 as an update of the state object the chat has: the phase
\* and the category are set, what else it holds is kept
OnCategoryQueryAugments(s, chatId, data) ==
    IF StartsWith(data, PrefixCategory)
    THEN LET category == JsString(ReplaceFirst(data, PrefixCategory))
             state == IF s.addItemStates[chatId] = NoState
                      THEN [state |-> AWAITING_NAME]
                      ELSE s.addItemStates[chatId]
         IN  Spawn([s EXCEPT !.addItemStates[chatId] =
                        Put(Put(state, "state", AWAITING_NAME), "category", category)],
                   Reply("category", chatId,
                       <<SendMessage(chatId, Text("Enter the item name:"), NoOptions),
                         AnswerCallbackQuery(chatId, NoOptions)>>))
    ELSE s

\* lines 199-212
OnCategoryQuery(s, chatId, data) ==
    IF StartsWith(data, PrefixCategory)
    THEN LET category == JsString(ReplaceFirst(data, PrefixCategory))
         IN  Spawn([s EXCEPT !.addItemStates[chatId] =
                        [state |-> AWAITING_NAME, category |-> category]],
                   Reply("category", chatId,
                       <<SendMessage(chatId, Text("Enter the item name:"), NoOptions),
                         AnswerCallbackQuery(chatId, NoOptions)>>))
    ELSE s

\* lines 270-277 and 297-299
OnItemQuery(s, chatId, data) ==
    IF StartsWith(data, PrefixRemove)
    THEN Spawn(s, [Handler("remove_", chatId, "read") EXCEPT
                       !.index = parseInt(ReplaceFirst(data, PrefixRemove))])
    ELSE IF StartsWith(data, PrefixToggle)
    THEN Spawn(s, [Handler("toggle_", chatId, "read") EXCEPT
                       !.index = parseInt(ReplaceFirst(data, PrefixToggle))])
    ELSE s

\* line 219 without its second test
NeverSlash(text) == FALSE

\* msg.text?.startsWith('/')
TextStartsWithSlash(text) == text # Undefined /\ StartsWith(text.chars, Slash)

\* line 221 without its second test: any state in 'awaiting_name' takes
\* the text for the name
OnMessageAnyName(s, chatId, text) ==
    LET state == s.addItemStates[chatId]
    IN  IF state = NoState \/ TextStartsWithSlash(text) THEN s
        ELSE IF state.state = AWAITING_NAME
        THEN Spawn([s EXCEPT !.addItemStates[chatId] =
                        Put(Put(state, "name", text), "state", AWAITING_QUANTITY)],
                   Reply("message", chatId,
                       <<SendMessage(chatId, Text("Enter the quantity:"), NoOptions)>>))
        ELSE IF state.state = AWAITING_QUANTITY
        THEN Spawn(s, [Handler("quantity", chatId, "read") EXCEPT
                           !.state = state, !.text = text])
        ELSE s

\* lines 215-228.  The state object is changed in place (222-223); no other
\* handler holds an object whose state is 'awaiting_name', so the new value
\* of the Map entry is all there is to it.
OnMessage(s, chatId, text) ==
    LET state == s.addItemStates[chatId]
    IN  IF state = NoState \/ TextStartsWithSlash(text) THEN s
        ELSE IF state.state = AWAITING_NAME /\ Truthy(Get(state, "category"))
        THEN Spawn([s EXCEPT !.addItemStates[chatId] =
                        Put(Put(state, "name", text), "state", AWAITING_QUANTITY)],
                   Reply("message", chatId,
                       <<SendMessage(chatId, Text("Enter the quantity:"), NoOptions)>>))
        ELSE IF state.state = AWAITING_QUANTITY
        THEN Spawn(s, [Handler("quantity", chatId, "read") EXCEPT
                           !.state = state, !.text = text])
        ELSE s


(***************************************************************************)
(* The listeners, resumed after an I/O completes.  Each operator gives the *)
(* state after handler i of s.inflight has run up to its next I/O.         *)
(***************************************************************************)
\* lines 152-174
ListAfterLoad(s, i, h, shoppingList) ==
    IF Len(shoppingList.items) = 0
    THEN Await(s, i, [h EXCEPT !.pc = "reply", !.calls =
            <<safeSendMessage(h.chat, Text("Your shopping list is empty."), NoOptions)>>])
    ELSE Await(s, i, [h EXCEPT !.pc = "reply", !.calls =
            <<SendMessage(h.chat, Text("Shopping List"),
                          [reply_markup |-> ToggleKeyboard(shoppingList.items)])>>])

\* lines 250-266
RemoveAfterLoad(s, i, h, shoppingList) ==
    IF Len(shoppingList.items) = 0
    THEN Await(s, i, [h EXCEPT !.pc = "reply", !.calls =
            <<SendMessage(h.chat, Text("Your shopping list is empty."), NoOptions)>>])
    ELSE Await(s, i, [h EXCEPT !.pc = "reply", !.calls =
            <<SendMessage(h.chat, Text("Select an item to remove:"),
                          [reply_markup |-> RemoveKeyboard(shoppingList.items)])>>])

\* lines 229-234: the item the dialogue has collected.
NewItem(state, text) ==
    [name |-> Get(state, "name"), quantity |-> text,
     category |-> Get(state, "category"), checked |-> JsBool(FALSE)]

\* lines 229-235
QuantityAfterLoad(s, i, h, shoppingList) ==
    Await(s, i, [h EXCEPT !.pc = "open",
                          !.items = Push(shoppingList.items, NewItem(h.state, h.text))])

\* lines 237-241
QuantityAfterSave(s, i, h) ==
    Await(s, i, [h EXCEPT !.pc = "reply", !.calls =
        <<SendMessage(h.chat,
            Template("Added to your list:",
                <<GlyphOf(Get(h.state, "category")), Get(h.state, "name"), h.text>>),
            NoOptions)>>])

\* line 280 and line 302: the index is taken for stale.
IndexRejected(index, items) ==
    JsLess(index, Num(0)) \/ JsGreaterEq(index, Num(Len(items)))

StaleAlert(chatId) ==
    AnswerCallbackQuery(chatId,
        [text |-> Text("This item no longer exists in the list"), show_alert |-> TRUE])

\* lines 280-290
RemoveItemAfterLoad(s, i, h, shoppingList) ==
    IF IndexRejected(h.index, shoppingList.items)
    THEN Await(s, i, [h EXCEPT !.pc = "reply", !.calls = <<StaleAlert(h.chat)>>])
    ELSE Await(s, i, [h EXCEPT !.pc = "open",
                               !.removedItem = ElementAt(shoppingList.items, h.index),
                               !.items = Splice1(shoppingList.items, h.index)])

\* lines 292-296: removedItem.category of an undefined removedItem throws.
RemoveItemAfterSave(s, i, h) ==
    IF h.removedItem = Undefined THEN Throw(s, i, "TypeError")
    ELSE Await(s, i, [h EXCEPT !.pc = "reply", !.calls =
            <<SendMessage(h.chat,
                Template("Removed from your list:",
                    <<GlyphOf(Get(h.removedItem, "category")),
                      Get(h.removedItem, "name")>>),
                NoOptions),
              AnswerCallbackQuery(h.chat, NoOptions)>>])

\* items[index].checked = true in the place of line 310
CheckOnly(items, index) ==
    [items EXCEPT ![index.n + 1] = Put(@, "checked", JsBool(TRUE))]

\* line 310
ToggleChecked(items, index) ==
    [items EXCEPT ![index.n + 1] =
        Put(@, "checked", JsBool(~Truthy(Get(@, "checked"))))]

\* lines 302-311: items[index].checked of an undefined items[index] throws.
ToggleAfterLoad(s, i, h, shoppingList) ==
    IF IndexRejected(h.index, shoppingList.items)
    THEN Await(s, i, [h EXCEPT !.pc = "reply", !.calls = <<StaleAlert(h.chat)>>])
    ELSE IF ElementAt(shoppingList.items, h.index) = Undefined
    THEN Throw(s, i, "TypeError")
    ELSE Await(s, i, [h EXCEPT !.pc = "open",
                               !.items = ToggleChecked(shoppingList.items, h.index)])

\* lines 313-335
ToggleAfterSave(s, i, h) ==
    LET item == ElementAt(h.items, h.index)
    IN  Await(s, i, [h EXCEPT !.pc = "reply", !.calls =
            <<EditMessageText(h.chat, Text("Shopping List Checkoff"),
                              [reply_markup |-> ToggleKeyboard(h.items)]),
              AnswerCallbackQuery(h.chat,
                  [text |-> Template("checked or unchecked",
                        <<Get(item, "name"), JsBool(Truthy(Get(item, "checked")))>>)])>>])

\* line 343
ClearAfterSave(s, i, h) ==
    Await(s, i, [h EXCEPT !.pc = "reply", !.calls =
        <<SendMessage(h.chat, Text("Your shopping list has been cleared."), NoOptions)>>])

\* fs.readFile completes: the handler gets what the file holds now.
\* shoppingList.items.length (lines 152, 250, 280, 302) and
\* shoppingList.items.push (line 229) throw when .items is undefined.
ReadCompletes(s, i) ==
    LET h == s.inflight[i]
        shoppingList == loadShoppingList(s.file)
    IN  IF "items" \notin DOMAIN shoppingList THEN Throw(s, i, "TypeError")
        ELSE
        CASE h.kind = "list" -> ListAfterLoad(s, i, h, shoppingList)
          [] h.kind = "remove" -> RemoveAfterLoad(s, i, h, shoppingList)
          [] h.kind = "quantity" -> QuantityAfterLoad(s, i, h, shoppingList)
          [] h.kind = "remove_" -> RemoveItemAfterLoad(s, i, h, shoppingList)
          [] h.kind = "toggle_" -> ToggleAfterLoad(s, i, h, shoppingList)

\* fs.writeFile opens the file with flag 'w': the file is truncated.
OpenCompletes(s, i) ==
    Await([s EXCEPT !.file = FileWith(EmptyText)], i,
          [s.inflight[i] EXCEPT !.pc = "write"])

\* A write that gives way to a save that came in between: the text is
\* written only when the file is still as this handler's open left it.
WriteIfUntouched(s, i) ==
    LET h == s.inflight[i]
        t == IF s.file = FileWith(EmptyText)
             THEN [s EXCEPT !.file = FileWith(saveShoppingList(h.items))]
             ELSE s
    IN  CASE h.kind = "quantity" -> QuantityAfterSave(t, i, h)
          [] h.kind = "remove_" -> RemoveItemAfterSave(t, i, h)
          [] h.kind = "toggle_" -> ToggleAfterSave(t, i, h)
          [] h.kind = "clear" -> ClearAfterSave(t, i, h)

\* fs.writeFile has written the text and the handler goes on (line 57
\* returns to the caller).
WriteCompletes(s, i) ==
    LET h == s.inflight[i]
        t == [s EXCEPT !.file = FileWith(saveShoppingList(h.items))]
    IN  CASE h.kind = "quantity" -> QuantityAfterSave(t, i, h)
          [] h.kind = "remove_" -> RemoveItemAfterSave(t, i, h)
          [] h.kind = "toggle_" -> ToggleAfterSave(t, i, h)
          [] h.kind = "clear" -> ClearAfterSave(t, i, h)

\* saveShoppingList without its try/catch: the rejection of fs.writeFile
\* reaches the listener
WriteThrows(s, i) == Throw(s, i, "Error")

\* lines 53-56: fs.writeFile rejects, the catch block logs the error and
\* saveShoppingList returns to its caller as after a save.  The file is as
\* the failed call left it: untouched when the file could not be opened,
\* truncated when the text could not be written.
WriteFails(s, i) ==
    LET h == s.inflight[i]
    IN  CASE h.kind = "quantity" -> QuantityAfterSave(s, i, h)
          [] h.kind = "remove_" -> RemoveItemAfterSave(s, i, h)
          [] h.kind = "toggle_" -> ToggleAfterSave(s, i, h)
          [] h.kind = "clear" -> ClearAfterSave(s, i, h)

\* addItemStates.clear() in the place of line 241: the quantity handler
\* ends every dialogue
ReplyClearsStates(s, i) ==
    LET h == s.inflight[i]
        t == Return([s EXCEPT !.out = @ \o h.calls], i)
    IN  IF h.kind = "quantity"
        THEN [t EXCEPT !.addItemStates = [c \in Chats |-> NoState]]
        ELSE t

\* The pending Bot API calls of the handler are made and it returns; the
\* quantity handler deletes the conversation state last (line 241).
ReplyCompletes(s, i) ==
    LET h == s.inflight[i]
        t == Return([s EXCEPT !.out = @ \o h.calls], i)
    IN  IF h.kind = "quantity"
        THEN [t EXCEPT !.addItemStates[h.chat] = NoState]
        ELSE t

\* One I/O completion of the handler at position i.
Resume(s, i) ==
    CASE s.inflight[i].pc = "read" -> ReadCompletes(s, i)
      [] s.inflight[i].pc = "open" -> OpenCompletes(s, i)
      [] s.inflight[i].pc = "write" -> WriteCompletes(s, i)
      [] s.inflight[i].pc = "reply" -> ReplyCompletes(s, i)


(***************************************************************************)
(* Dispatch of one update by the bot library: the 'message' listener       *)
(* first, then every onText listener whose pattern matches the text, in    *)
(* the order of registration (lines 90, 114, 138, 148, 181, 246, 340);     *)
(* both 'callback_query' listeners get every query (lines 199, 270).       *)
(***************************************************************************)
OnText(s, regexp, text, handled) ==
    IF RegexMatches(regexp, text.chars) THEN handled ELSE s

ProcessMessage(s, chatId, text) ==
    LET s0 == OnMessage([s EXCEPT !.out = <<>>], chatId, text)
    IN  IF ~Truthy(text) THEN s0
        ELSE LET s1 == OnText(s0, CmdStart, text, OnStart(s0, chatId))
                 s2 == OnText(s1, CmdHelp, text, OnHelp(s1, chatId))
                 s3 == OnText(s2, CmdCategories, text, OnCategories(s2, chatId))
                 s4 == OnText(s3, CmdList, text, OnList(s3, chatId))
                 s5 == OnText(s4, CmdAdd, text, OnAdd(s4, chatId))
                 s6 == OnText(s5, CmdRemove, text, OnRemove(s5, chatId))
             IN  OnText(s6, CmdClear, text, OnClear(s6, chatId))

ProcessCallbackQuery(s, chatId, data) ==
    OnItemQuery(OnCategoryQuery([s EXCEPT !.out = <<>>], chatId, data), chatId, data)

\* The states in which every handler in flight has returned, over every
\* order in which their I/O may complete.
RECURSIVE Quiesce(_)
Quiesce(s) ==
    IF s.inflight = <<>> THEN {s}
    ELSE UNION {Quiesce(Resume(s, i)) : i \in 1..Len(s.inflight)}

(***************************************************************************)
(* Inputs.                                                                 *)
(***************************************************************************)
Apples == JsString(<<"A", "p", "p", "l", "e", "s">>)
Six == JsString(<<"6">>)
Milk == JsString(<<"M", "i", "l", "k">>)
Two == JsString(<<"2">>)
Rice == JsString(<<"R", "i", "c", "e">>)
HealthyCarbs == <<"h", "e", "a", "l", "t", "h", "y", "_", "c", "a", "r", "b", "s">>
Fruits == <<"f", "r", "u", "i", "t", "s">>
Other == <<"o", "t", "h", "e", "r">>

PlainTexts == {Apples, Six}
CommandTexts == {JsString(c) : c \in
    {CmdStart, CmdHelp, CmdCategories, CmdList, CmdAdd, CmdRemove, CmdClear}}
\* A text that holds a command, not at its start.
NoClear == JsString(<<"n", "o", " ">> \o CmdClear)
NoAdd == JsString(<<"n", "o", " ">> \o CmdAdd)
NoList == JsString(<<"n", "o", " ">> \o CmdList)
\* Undefined is the text of a message that has none (a photo, a sticker).
Texts == PlainTexts \cup CommandTexts \cup {NoClear, NoAdd, Undefined}

PressedCategories == {Fruits, Other}
IndexTokens == {<<"0">>, <<"1">>, <<"2">>, <<"-", "1">>, <<"x">>}
CallbackData ==
    {PrefixCategory \o k : k \in PressedCategories}
    \cup {PrefixRemove \o t : t \in IndexTokens}
    \cup {PrefixToggle \o t : t \in IndexTokens}

Item(name, quantity, category, checked) ==
    [name |-> name, quantity |-> quantity,
     category |-> JsString(category), checked |-> JsBool(checked)]

ItemA == Item(Apples, Six, Fruits, FALSE)
ItemB == Item(Milk, Two, Other, TRUE)
ItemC == Item(Rice, Two, HealthyCarbs, FALSE)

\* What start-up may find on disk: no file (first run), or a list an
\* earlier run saved.
InitLists == {<<>>, <<ItemA>>, <<ItemA, ItemB>>, <<ItemB, ItemC, ItemA>>}
InitFiles == {NoFile} \cup {FileWith(saveShoppingList(l)) : l \in InitLists}

\* Outside SpecScenario no script is followed.
NoScenario == [name |-> "none"]

Init ==
    /\ file \in InitFiles
    /\ addItemStates = [c \in Chats |-> NoState]
    /\ inflight = <<>>
    /\ out = <<>>
    /\ nUpdates = 0
    /\ scenario = NoScenario

Becomes(t) ==
    /\ file' = t.file
    /\ addItemStates' = t.addItemStates
    /\ inflight' = t.inflight
    /\ out' = t.out
    /\ scenario' = scenario

(***************************************************************************)
(* Updates handled one at a time: the next update is dispatched when every *)
(* handler of the one before has returned.                                 *)
(***************************************************************************)
Message(chatId, text) ==
    /\ nUpdates < MaxUpdates
    /\ inflight = <<>>
    /\ \E t \in Quiesce(ProcessMessage(State, chatId, text)) : Becomes(t)
    /\ nUpdates' = nUpdates + 1

CallbackQuery(chatId, data) ==
    /\ nUpdates < MaxUpdates
    /\ inflight = <<>>
    /\ \E t \in Quiesce(ProcessCallbackQuery(State, chatId, data)) : Becomes(t)
    /\ nUpdates' = nUpdates + 1

Next ==
    \E chatId \in Chats :
        \/ \E text \in Texts : Message(chatId, text)
        \/ \E data \in CallbackData : CallbackQuery(chatId, data)

Spec == Init /\ [][Next]_vars


(***************************************************************************)
(* Updates handled as they arrive: an update is dispatched while handlers  *)
(* of earlier updates still wait for their I/O, and the pending I/O        *)
(* operations complete in any order.                                       *)
(***************************************************************************)
ArrivingTexts == {Six, JsString(CmdAdd), JsString(CmdClear)}
ArrivingData ==
    {PrefixCategory \o Fruits, PrefixRemove \o <<"0">>, PrefixToggle \o <<"0">>}

\* A dialogue that has got as far as the quantity prompt.
AwaitingQuantity(category, name) ==
    [state |-> AWAITING_QUANTITY, category |-> JsString(category), name |-> name]

\* The handlers are followed from a moment at which none is in flight and
\* each chat is outside the dialogue or at its quantity prompt; the name
\* chat 2 has given was a message without text.
InterleavedStates ==
    {a \in [Chats -> {NoState, AwaitingQuantity(Other, Rice),
                                AwaitingQuantity(Other, Undefined)}] :
        /\ a[1] # AwaitingQuantity(Other, Undefined)
        /\ a[2] # AwaitingQuantity(Other, Rice)}

InterleavedFiles == {NoFile, FileWith(saveShoppingList(<<ItemA, ItemB>>))}

InitInterleaved ==
    /\ file \in InterleavedFiles
    /\ addItemStates \in InterleavedStates
    /\ inflight = <<>>
    /\ out = <<>>
    /\ nUpdates = 0
    /\ scenario = NoScenario

MessageArrives(chatId, text) ==
    /\ nUpdates < MaxArrivals
    /\ Becomes(ProcessMessage(State, chatId, text))
    /\ nUpdates' = nUpdates + 1

CallbackQueryArrives(chatId, data) ==
    /\ nUpdates < MaxArrivals
    /\ Becomes(ProcessCallbackQuery(State, chatId, data))
    /\ nUpdates' = nUpdates + 1

IOCompletes(i) ==
    /\ Becomes(Resume(State, i))
    /\ UNCHANGED nUpdates

NextInterleaved ==
    \/ \E chatId \in Chats :
        \/ \E text \in ArrivingTexts : MessageArrives(chatId, text)
        \/ \E data \in ArrivingData : CallbackQueryArrives(chatId, data)
    \/ \E i \in 1..Len(inflight) : IOCompletes(i)

SpecInterleaved == InitInterleaved /\ [][NextInterleaved]_vars


(***************************************************************************)
(* Scripted behaviours: the updates of one scenario are dispatched one     *)
(* after the other, each handled to its end before the next, from a chosen *)
(* content of the file and a chosen content of addItemStates.              *)
(***************************************************************************)
MessageUpdate(chatId, text) ==
    [update |-> "message", chat |-> chatId, text |-> text, data |-> <<>>]
CallbackQueryUpdate(chatId, data) ==
    [update |-> "callback_query", chat |-> chatId, text |-> Undefined, data |-> data]

\* The four updates of one add dialogue x = [chat, category, name, quantity].
AddFlow(x) ==
    <<MessageUpdate(x.chat, JsString(CmdAdd)),
      CallbackQueryUpdate(x.chat, PrefixCategory \o x.category),
      MessageUpdate(x.chat, x.name),
      MessageUpdate(x.chat, x.quantity)>>

\* Texts that do not start with '/'; some hold a command further on.
NameTexts == {Apples, NoList, NoAdd, NoClear}
QuantityTexts == {Six, NoList, NoAdd, NoClear}
Flows == [chat : Chats, category : CategoryKeys,
          name : NameTexts, quantity : QuantityTexts]
ShortFlows == [chat : Chats, category : PressedCategories,
               name : {Apples, NoList}, quantity : {Six, NoAdd}]

\* Contents of addItemStates in which the given chats have no entry.
StartStates(chats) ==
    {a \in [Chats -> {NoState, AwaitingQuantity(Other, Milk)}] :
        \A c \in chats : a[c] = NoState}

\* The state objects a chat can have: none, after /add (line 183), after a
\* category button (lines 205-208), after the name (lines 222-223).
DialogueStates ==
    {NoState, [state |-> AWAITING_NAME],
     [state |-> AWAITING_NAME, category |-> JsString(Fruits)],
     AwaitingQuantity(Other, Milk)}

\* One update of any kind.
Updates ==
    {MessageUpdate(c, text) : c \in Chats, text \in Texts \cup {NoList}}
    \cup {CallbackQueryUpdate(c, data) : c \in Chats, data \in CallbackData}

Scenarios ==
    UNION {{[name |-> "add", flows |-> <<x>>, file |-> f, addItemStates |-> a,
              updates |-> AddFlow(x)] :
                f \in InitFiles, a \in StartStates({x.chat})} : x \in Flows}
    \cup
    {[name |-> "add twice", flows |-> <<x[1], x[2]>>, file |-> f,
      addItemStates |-> [c \in Chats |-> NoState],
      updates |-> AddFlow(x[1]) \o AddFlow(x[2])] :
        x \in ShortFlows \X ShortFlows, f \in InitFiles}
    \cup
    {[name |-> "clear", flows |-> <<x>>, file |-> f, addItemStates |-> a,
      updates |-> <<MessageUpdate(c[1], JsString(CmdClear)),
                    MessageUpdate(c[2], JsString(CmdList)),
                    MessageUpdate(c[2], JsString(CmdRemove))>> \o AddFlow(x)] :
        x \in ShortFlows, c \in Chats \X Chats, f \in InitFiles, a \in StartStates({})}
    \cup
    {[name |-> "update", flows |-> <<>>, file |-> f, addItemStates |-> a,
      updates |-> <<u>>] :
        u \in Updates, f \in InitFiles, a \in [Chats -> DialogueStates]}

InitScenario ==
    /\ scenario \in Scenarios
    /\ file = scenario.file
    /\ addItemStates = scenario.addItemStates
    /\ inflight = <<>>
    /\ out = <<>>
    /\ nUpdates = 0

ScenarioMessage ==
    /\ nUpdates < Len(scenario.updates)
    /\ LET u == scenario.updates[nUpdates + 1]
       IN  /\ u.update = "message"
           /\ \E t \in Quiesce(ProcessMessage(State, u.chat, u.text)) : Becomes(t)
    /\ nUpdates' = nUpdates + 1

ScenarioCallbackQuery ==
    /\ nUpdates < Len(scenario.updates)
    /\ LET u == scenario.updates[nUpdates + 1]
       IN  /\ u.update = "callback_query"
           /\ \E t \in Quiesce(ProcessCallbackQuery(State, u.chat, u.data)) : Becomes(t)
    /\ nUpdates' = nUpdates + 1

NextScenario == ScenarioMessage \/ ScenarioCallbackQuery

SpecScenario == InitScenario /\ [][NextScenario]_vars


(***************************************************************************)
(* A file system that may fail: shopping-list.json may hold at start-up    *)
(* what the program did not write, and a fs.writeFile may be rejected.     *)
(* Updates are handled one at a time, I/O by I/O.                          *)
(***************************************************************************)
FaultyFiles ==
    {NoFile, FileWith(EmptyText), FileWith(Garbage), FileWith(NoItemsText),
     FileWith(saveShoppingList(<<ItemA, ItemB>>))}

FaultTexts == {Six, JsString(CmdList), JsString(CmdRemove), JsString(CmdClear)}
FaultData ==
    {PrefixRemove \o <<"0">>, PrefixRemove \o <<"1">>,
     PrefixToggle \o <<"0">>, PrefixToggle \o <<"1">>}

InitFaults ==
    /\ file \in FaultyFiles
    /\ addItemStates \in StartStates({})
    /\ inflight = <<>>
    /\ out = <<>>
    /\ nUpdates = 0
    /\ scenario = NoScenario

NextMessage(chatId, text) ==
    /\ nUpdates < MaxFaultyUpdates
    /\ inflight = <<>>
    /\ Becomes(ProcessMessage(State, chatId, text))
    /\ nUpdates' = nUpdates + 1

NextCallbackQuery(chatId, data) ==
    /\ nUpdates < MaxFaultyUpdates
    /\ inflight = <<>>
    /\ Becomes(ProcessCallbackQuery(State, chatId, data))
    /\ nUpdates' = nUpdates + 1

WriteRejected(i) ==
    /\ inflight[i].pc \in {"open", "write"}
    /\ Becomes(WriteFails(State, i))
    /\ UNCHANGED nUpdates

NextFaults ==
    \/ \E chatId \in Chats :
        \/ \E text \in FaultTexts : NextMessage(chatId, text)
        \/ \E data \in FaultData : NextCallbackQuery(chatId, data)
    \/ \E i \in 1..Len(inflight) : IOCompletes(i)
    \/ \E i \in 1..Len(inflight) : WriteRejected(i)

SpecFaults == InitFaults /\ [][NextFaults]_vars


(***************************************************************************)
(* safeSendMessage (lines 60-87) on a transport that may reject a message. *)
(* One call is followed send by send; the frame of the call is the one     *)
(* element of inflight, and out lists the calls of bot.sendMessage with    *)
(* what became of each.                                                    *)
(*   pc  "send"        line 62, the message as given                       *)
(*       "stripped"    line 72, the message without formatting characters  *)
(*       "displaying"  line 76, the apology after a failed stripped send   *)
(*       "processing"  line 82, the apology after any other rejection      *)
(***************************************************************************)
ParseError == "400 can't parse entities"
OtherError == "other"
Accepted == "none"
Rejections == {ParseError, OtherError}

\* line 71: every asterisk, underscore, backtick and opening bracket is
\* removed (the backtick is written out, as no string of this module can
\* hold one).
FormattingChars == {"*", "_", "backtick", "["}
Strip(chars) == SelectSeq(chars, LAMBDA ch : ch \notin FormattingChars)

SafeSendFrame(chatId, message, options) ==
    [kind |-> "safeSendMessage", chat |-> chatId, pc |-> "send",
     message |-> message, options |-> options]

DisplayApology == Text("Sorry, there was an error displaying this message.")
ProcessApology == Text("Sorry, there was an error processing your request.")

\* The call of bot.sendMessage the frame is waiting for.
PendingSend(f) ==
    CASE f.pc = "send" -> SendMessage(f.chat, f.message, f.options)
      [] f.pc = "stripped" ->
            SendMessage(f.chat, JsString(Strip(f.message.chars)), NoOptions)
      [] f.pc = "displaying" -> SendMessage(f.chat, DisplayApology, NoOptions)
      [] f.pc = "processing" -> SendMessage(f.chat, ProcessApology, NoOptions)

Attempt(call, error) == [api |-> "bot.sendMessage", call |-> call, error |-> error]

\* lines 62, 72, 76, 82: the pending send resolves and its value is returned.
SendResolves(s) ==
    Return([s EXCEPT !.out = Append(@, Attempt(PendingSend(s.inflight[1]), Accepted))], 1)

\* line 76 is in the catch block of lines 73-77, inside the catch block of
\* lines 63-86, and in no try block: its rejection leaves safeSendMessage.
DisplayingRejects(s, error) == Throw(s, 1, error)

\* lines 63-86: the pending send rejects.
SendRejects(s, error) ==
    LET f == s.inflight[1]
        t == [s EXCEPT !.out = Append(@, Attempt(PendingSend(f), error))]
    IN  CASE f.pc = "send" ->
                IF error = ParseError
                THEN Await(t, 1, [f EXCEPT !.pc = "stripped"])
                ELSE Await(t, 1, [f EXCEPT !.pc = "processing"])
          [] f.pc = "stripped" -> Await(t, 1, [f EXCEPT !.pc = "displaying"])
          [] f.pc = "displaying" -> DisplayingRejects(t, error)
          [] f.pc = "processing" -> Return(t, 1)

\* Messages with and without formatting characters.
Bold == JsString(<<"*", "H", "i", "*">>)
Link == JsString(<<"[", "a", "_", "backtick", "b">>)
Stars == JsString(<<"*", "*">>)
SentTexts == {Bold, Link, Stars, Six}

InitSend ==
    /\ inflight \in {<<SafeSendFrame(c, m, o)>> :
                        c \in Chats, m \in SentTexts, o \in {NoOptions, Markdown}}
    /\ out = <<>>
    /\ file = NoFile
    /\ addItemStates = [c \in Chats |-> NoState]
    /\ nUpdates = 0
    /\ scenario = NoScenario

SendAccepted ==
    /\ inflight # <<>>
    /\ Becomes(SendResolves(State))
    /\ UNCHANGED nUpdates

SendRejected(error) ==
    /\ inflight # <<>>
    /\ Becomes(SendRejects(State, error))
    /\ UNCHANGED nUpdates

NextSend == SendAccepted \/ \E error \in Rejections : SendRejected(error)

SpecSend == InitSend /\ [][NextSend]_vars


(***************************************************************************)
(* Properties.                                                             *)
(***************************************************************************)
\* The list a load of the file returns now, and at the start of the scenario.
Stored == loadShoppingList(file).items
Base == loadShoppingList(scenario.file).items

Finished == nUpdates = Len(scenario.updates)

\* The item an add dialogue x is to append.
ItemOf(x) ==
    [name |-> x.name, quantity |-> x.quantity,
     category |-> JsString(x.category), checked |-> JsBool(FALSE)]

Holds(lit, text) == RegexMatches(lit, text.chars)

\* Neither text of the dialogue sets off a command that interferes with it.
FlowIsPlain(x) ==
    /\ ~Holds(CmdAdd, x.name)
    /\ ~Holds(CmdClear, x.name)
    /\ ~Holds(CmdClear, x.quantity)

\* After the first j dialogues of the scenario: the list is the base list
\* followed by their items, in order, and the chat of dialogue j has no state.
Appended(j) ==
    /\ Stored = Base \o [i \in 1..j |-> ItemOf(scenario.flows[i])]
    /\ addItemStates[scenario.flows[j].chat] = NoState

FlowLen == Len(AddFlow(scenario.flows[1]))

\* C1 (as amended): for a chat with no conversation state, a registry
\* category k and texts n, q that do not start with '/', where n holds
\* neither "/add" nor "/clear" and q does not hold "/clear", the updates
\* /add, category_k, n, q leave the stored list equal to the list before
\* followed by the one item {n, q, k, unchecked} and the chat without state;
\* a second such dialogue leaves the list ending in both items, in order.
C1_AddFlowAppends ==
    scenario.name \in {"add", "add twice"} =>
        \A j \in 1..Len(scenario.flows) :
            (/\ nUpdates = j * FlowLen
             /\ \A i \in 1..j : FlowIsPlain(scenario.flows[i]))
            => Appended(j)

\* C1 as stated: the same for all texts n, q that do not start with '/'.
C1_AddFlowAppendsAnyText ==
    scenario.name \in {"add", "add twice"} =>
        \A j \in 1..Len(scenario.flows) : nUpdates = j * FlowLen => Appended(j)

\* Two dialogues have run to their end on a list that was not empty; the
\* name of the first holds "/list", the quantity of the second "/add".
C1_TwoFlowsDone ==
    /\ scenario.name = "add twice"
    /\ Finished
    /\ Base # <<>>
    /\ scenario.flows[1].name = NoList
    /\ scenario.flows[2].quantity = NoAdd
    /\ Appended(2)

(***************************************************************************)
(* Button presses, looked at from every state the bot reaches between two  *)
(* updates: the states in which the handlers of one more update end.       *)
(***************************************************************************)
ListOf(t) == loadShoppingList(t.file).items

AfterCallbackQuery(chatId, data) == Quiesce(ProcessCallbackQuery(State, chatId, data))
AfterMessage(chatId, text) == Quiesce(ProcessMessage(State, chatId, text))

\* A token is a position of the list s when it is a string of decimal
\* digits whose value is less than the length of s.
IsDecimal(token) == token # <<>> /\ \A i \in 1..Len(token) : IsDigit(token[i])
PositionOf(token) == DigitsValue(token, 0)
ValidPosition(token, s) == IsDecimal(token) /\ PositionOf(token) < Len(s)

\* The list s without the item at 0-based position p.
Without(s, p) ==
    [j \in 1..(Len(s) - 1) |-> IF j <= p THEN s[j] ELSE s[j + 1]]

\* C2 as stated: a press of remove_<token> whose token is no position of
\* the stored list (negative, too large, or no decimal integer) leaves the
\* stored list as it was and is answered by the 'no longer exists' alert.
C2_StaleRemoveRejected ==
    LET s == Stored
    IN  \A c \in Chats, token \in IndexTokens :
            ~ValidPosition(token, s) =>
                \A t \in AfterCallbackQuery(c, PrefixRemove \o token) :
                    /\ ListOf(t) = s
                    /\ t.out = <<StaleAlert(c)>>

\* C3: a press of remove_i with i a position of the stored list s leaves
\* the stored list equal to s without the item at i (one shorter, the others
\* unchanged and in order), and the confirmation names the removed item.
C3_RemoveAtValid ==
    LET s == Stored
    IN  \A c \in Chats, token \in IndexTokens :
            ValidPosition(token, s) =>
                \A t \in AfterCallbackQuery(c, PrefixRemove \o token) :
                    LET after == ListOf(t)
                    IN  /\ after = Without(s, PositionOf(token))
                        /\ Len(after) = Len(s) - 1
                        /\ Len(t.out) = 2
                        /\ t.out[1].api = "sendMessage"
                        /\ t.out[1].chat = c
                        /\ t.out[1].text.template = "Removed from your list:"
                        /\ t.out[1].text.parts[2] = Get(s[PositionOf(token) + 1], "name")
                        /\ t.out[2] = AnswerCallbackQuery(c, NoOptions)

\* A removal has been confirmed and items are left in the list.
C3_Removed ==
    /\ Len(out) = 2
    /\ out[1].api = "sendMessage"
    /\ out[1].text.template = "Removed from your list:"
    /\ Len(Stored) >= 2

\* The list s with the checked flag of the item at 0-based position p
\* inverted and nothing else changed.
Flipped(s, p) ==
    [j \in 1..Len(s) |->
        IF j = p + 1
        THEN [k \in DOMAIN s[j] |->
                IF k = "checked" THEN JsBool(~s[j][k].val) ELSE s[j][k]]
        ELSE s[j]]

\* C4: a press of toggle_i with i a position of the stored list s changes
\* nothing but the checked flag of item i, and a second press of toggle_i
\* right after it returns the stored list to s.
C4_ToggleTwice ==
    LET s == Stored
    IN  \A c \in Chats, token \in IndexTokens :
            ValidPosition(token, s) =>
                \A t \in AfterCallbackQuery(c, PrefixToggle \o token) :
                    /\ ListOf(t) = Flipped(s, PositionOf(token))
                    /\ ListOf(t) # s
                    /\ \A u \in Quiesce(ProcessCallbackQuery(t, c, PrefixToggle \o token)) :
                          ListOf(u) = s

\* A toggle has been answered: the list message was edited.
C4_Toggled ==
    /\ Len(out) = 2
    /\ out[1].api = "editMessageText"
    /\ Len(Stored) >= 2

(***************************************************************************)
(* Handlers in flight together (SpecInterleaved).                          *)
(***************************************************************************)
ItemFields == {"name", "quantity", "category", "checked"}

\* l and r have the same length and, position by position, the same
\* name, quantity, category and checked value.
SameItems(l, r) ==
    /\ Len(l) = Len(r)
    /\ \A j \in 1..Len(l) : \A k \in ItemFields : Get(l[j], k) = Get(r[j], k)

\* The number of handlers in flight that are at pc.  It goes down only when
\* one of them is resumed.
Pending(pc, handlers) ==
    Cardinality({i \in 1..Len(handlers) : handlers[i].pc = pc})

\* C5: nothing merges two saves.  A handler saves the list it computed
\* from what it loaded, and when its write completes the file holds exactly
\* that list (item by item, field by field), whatever another handler has
\* saved since it loaded: the later save replaces the earlier one.
C5_LaterSaveWins ==
    [][/\ Pending("open", inflight') < Pending("open", inflight) =>
            file' = FileWith(EmptyText)
       /\ Pending("write", inflight') < Pending("write", inflight) =>
            \E i \in 1..Len(inflight) :
                /\ inflight[i].pc = "write"
                /\ SameItems(ListOf([file |-> file']), inflight[i].items)]_vars

\* The item the dialogue of InitInterleaved appends once the quantity "6"
\* has arrived.
RiceItem == Item(Rice, Six, Other, FALSE)

\* A lost update: the add of Rice and a removal have both been confirmed,
\* no handler is in flight, items are left in the list and the added item is
\* not among them (either serial order of the two leaves it as the last
\* item).
C5_LostUpdate ==
    /\ inflight = <<>>
    /\ \E j \in 1..Len(out) :
          /\ out[j].api = "sendMessage"
          /\ out[j].text.template = "Added to your list:"
          /\ out[j].text.parts[2] = Rice
    /\ \E j \in 1..Len(out) :
          out[j].api = "sendMessage" /\ out[j].text.template = "Removed from your list:"
    /\ Stored # <<>>
    /\ \A j \in 1..Len(Stored) : Stored[j] # RiceItem

(***************************************************************************)
(* /clear, and messages that start with '/'.                               *)
(***************************************************************************)
EmptyListReply(chatId) ==
    SendMessage(chatId, Text("Your shopping list is empty."), NoOptions)

\* C6: once /clear has been handled, whatever the list held, the stored
\* list is empty, a /list and a /remove that follow both report an empty
\* list, and an add dialogue completed after them leaves a stored list of
\* exactly its one item.
C6_ClearAbsorbing ==
    scenario.name = "clear" =>
        /\ nUpdates = 1 => Stored = <<>>
        /\ nUpdates = 2 =>
              out = <<EmptyListReply(scenario.updates[2].chat)>> /\ Stored = <<>>
        /\ nUpdates = 3 =>
              out = <<EmptyListReply(scenario.updates[3].chat)>> /\ Stored = <<>>
        /\ Finished => Stored = <<ItemOf(scenario.flows[1])>>

\* The scenario has run to its end on a list that held items.
C6_ClearedThenAdded ==
    /\ scenario.name = "clear"
    /\ Finished
    /\ Len(Base) >= 2
    /\ Stored = <<ItemOf(scenario.flows[1])>>

\* Texts that start with '/': the commands, and one that is no command.
SlashTexts == CommandTexts \cup {JsString(<<"/", "6">>)}

Added(calls) ==
    \E j \in 1..Len(calls) :
        calls[j].api = "sendMessage" /\ calls[j].text.template = "Added to your list:"

\* What a message that is no dialogue input leaves of the stored list s.
ListAfterCommand(text, s) == IF Holds(CmdClear, text) THEN <<>> ELSE s

\* C7: a message that starts with '/' is no dialogue input.  In
\* AWAITING_NAME it is not recorded as the name and the phase does not become
\* AWAITING_QUANTITY; in AWAITING_QUANTITY it is not taken as the quantity:
\* no item is appended and no addition is confirmed.
C7_SlashNotConsumed ==
    LET s == Stored
    IN  \A c \in Chats : addItemStates[c] # NoState =>
            \A text \in SlashTexts : \A t \in AfterMessage(c, text) :
                /\ addItemStates[c].state = AWAITING_NAME =>
                      /\ t.addItemStates[c] # NoState
                      /\ t.addItemStates[c].state = AWAITING_NAME
                      /\ Get(t.addItemStates[c], "name") = Undefined
                /\ addItemStates[c].state = AWAITING_QUANTITY =>
                      /\ ~Added(t.out)
                      /\ ListOf(t) = ListAfterCommand(text, s)

\* /help has been answered in a chat that is at its quantity prompt.
C7_HelpWhileAwaitingQuantity ==
    \E c \in Chats :
        /\ addItemStates[c] # NoState
        /\ addItemStates[c].state = AWAITING_QUANTITY
        /\ out = <<safeSendMessage(c, Text("GroceryBot Help"), Markdown)>>

\* C8 (as amended): in AWAITING_QUANTITY a command does not complete the
\* pending add; /start, /help, /categories, /list, /remove and /clear leave
\* the state object as it was (phase, category and name), and /add replaces
\* it by a new one in AWAITING_NAME with no category and no name.
C8_EscapeKeepsState ==
    LET s == Stored
    IN  \A c \in Chats :
            (addItemStates[c] # NoState /\ addItemStates[c].state = AWAITING_QUANTITY) =>
                \A text \in CommandTexts : \A t \in AfterMessage(c, text) :
                    /\ ~Added(t.out)
                    /\ ListOf(t) = ListAfterCommand(text, s)
                    /\ t.addItemStates[c] =
                          IF text = JsString(CmdAdd) THEN [state |-> AWAITING_NAME]
                          ELSE addItemStates[c]

\* C8 as stated: every command, /add too, leaves the state object as it was.
C8_EscapeKeepsStateAnyCommand ==
    \A c \in Chats :
        (addItemStates[c] # NoState /\ addItemStates[c].state = AWAITING_QUANTITY) =>
            \A text \in CommandTexts : \A t \in AfterMessage(c, text) :
                /\ ~Added(t.out)
                /\ t.addItemStates[c] = addItemStates[c]

\* /clear has been answered in a chat that is at its quantity prompt, with
\* the name it was given.
C8_ClearWhileAwaitingQuantity ==
    \E c \in Chats :
        /\ addItemStates[c] = AwaitingQuantity(Fruits, Apples)
        /\ out = <<SendMessage(c, Text("Your shopping list has been cleared."), NoOptions)>>

(***************************************************************************)
(* The stored items.                                                       *)
(***************************************************************************)
\* C9: every list a handler is about to save is read back by a load that
\* follows its save with no other save in between: same length, same order,
\* and the same name, quantity, category and checked value for every item.
C9_RoundTrip ==
    \A i \in 1..Len(inflight) :
        inflight[i].pc = "open" =>
            SameItems(inflight[i].items,
                      loadShoppingList(FileWith(saveShoppingList(inflight[i].items))).items)

\* A handler is about to save a list of at least two items, one of them
\* with an undefined name.
C9_AboutToSave ==
    \E i \in 1..Len(inflight) :
        /\ inflight[i].pc = "open"
        /\ Len(inflight[i].items) >= 2
        /\ \E j \in 1..Len(inflight[i].items) :
              Get(inflight[i].items[j], "name") = Undefined

\* C10 as stated: every item of the stored list has a string name, a string
\* quantity, a category that is a key of the registry and a boolean checked
\* flag.
C10_ItemsWellFormed ==
    \A j \in 1..Len(Stored) :
        /\ IsString(Get(Stored[j], "name"))
        /\ IsString(Get(Stored[j], "quantity"))
        /\ IsString(Get(Stored[j], "category"))
        /\ Get(Stored[j], "category").chars \in CategoryKeys
        /\ IsBool(Get(Stored[j], "checked"))

(***************************************************************************)
(* A file the program did not write (SpecFaults).                          *)
(***************************************************************************)
\* The file holds a text that parses to a record of items.
HoldsItemsRecord(f) == f.exists /\ f.text.kind = "json"

\* C11 as stated: while shopping-list.json is missing or holds no parsable
\* {items: [...]} record, a load returns an empty item sequence, /list and
\* /remove report an empty list, and a press of remove_i or toggle_i is
\* answered by the 'no longer exists' alert.
C11_LoadDegrades ==
    (inflight = <<>> /\ ~HoldsItemsRecord(file)) =>
        /\ loadShoppingList(file) = [items |-> <<>>]
        /\ \A c \in Chats :
              /\ \A t \in AfterMessage(c, JsString(CmdList)) :
                    t.out = <<EmptyListReply(c)>>
              /\ \A t \in AfterMessage(c, JsString(CmdRemove)) :
                    t.out = <<EmptyListReply(c)>>
              /\ \A data \in FaultData : \A t \in AfterCallbackQuery(c, data) :
                    t.out = <<StaleAlert(c)>>

(***************************************************************************)
(* Presses of toggle_<token> that name no item.                            *)
(***************************************************************************)
\* C12 as stated: a press of toggle_<token> whose token is no position of
\* the stored list (negative, too large, or no decimal integer) leaves the
\* stored list as it was, saves nothing, and is answered by the 'no longer
\* exists' alert.
C12_StaleToggleRejected ==
    LET s == Stored
    IN  \A c \in Chats, token \in IndexTokens :
            ~ValidPosition(token, s) =>
                \A t \in AfterCallbackQuery(c, PrefixToggle \o token) :
                    /\ t.file = file
                    /\ ListOf(t) = s
                    /\ t.out = <<StaleAlert(c)>>

(***************************************************************************)
(* The name prompt.                                                        *)
(***************************************************************************)
\* Messages that are no command: a text that holds none and does not start
\* with '/', or no text at all.
FreeTexts == PlainTexts \cup {Undefined}

AwaitingName(state) == state # NoState /\ state.state = AWAITING_NAME
HasCategory(state) == Truthy(Get(state, "category"))
AwaitingQuantityPhase(state) == state # NoState /\ state.state = AWAITING_QUANTITY

\* The one update of an "update" scenario, handled to its end, and the
\* state object its chat had before.
TheUpdate == scenario.updates[1]
Handled == scenario.name = "update" /\ Finished
StateBefore == scenario.addItemStates[TheUpdate.chat]
StateAfter == addItemStates[TheUpdate.chat]
IsFreeText == TheUpdate.update = "message" /\ TheUpdate.text \in FreeTexts

\* C13: a free-text message to a chat in AWAITING_NAME without a category
\* changes nothing (conversation states, file) and is not answered; to a
\* chat in AWAITING_NAME with a category it is recorded as the name and the
\* phase becomes AWAITING_QUANTITY, the category kept and the file
\* untouched; and no update of any kind takes a chat into
\* AWAITING_QUANTITY from any other state.
C13_NameNeedsCategory ==
    Handled =>
        /\ (IsFreeText /\ AwaitingName(StateBefore) /\ ~HasCategory(StateBefore)) =>
              /\ addItemStates = scenario.addItemStates
              /\ StateAfter = [state |-> AWAITING_NAME]
              /\ file = scenario.file
              /\ out = <<>>
        /\ (IsFreeText /\ AwaitingName(StateBefore) /\ HasCategory(StateBefore)) =>
              /\ StateAfter = [state |-> AWAITING_QUANTITY,
                               category |-> StateBefore.category,
                               name |-> TheUpdate.text]
              /\ file = scenario.file
        /\ (AwaitingQuantityPhase(StateAfter) /\ StateAfter # StateBefore) =>
              /\ TheUpdate.update = "message"
              /\ AwaitingName(StateBefore) /\ HasCategory(StateBefore)
              /\ StateAfter.name = TheUpdate.text

\* The text "Apples" has been sent to a chat that had sent /add and pressed
\* no category button, while a list was stored.
C13_NameIgnored ==
    /\ Handled
    /\ TheUpdate = MessageUpdate(1, Apples)
    /\ StateBefore = [state |-> AWAITING_NAME]
    /\ StateAfter = [state |-> AWAITING_NAME]
    /\ Base # <<>>

(***************************************************************************)
(* Commands inside a text.                                                 *)
(***************************************************************************)
Commands == {CmdStart, CmdHelp, CmdCategories, CmdList, CmdAdd, CmdRemove, CmdClear}

\* The literal occurs in the text, at its start or further on.
Occurs(lit, text) ==
    \E k \in 1..Len(text.chars) :
        /\ k + Len(lit) - 1 <= Len(text.chars)
        /\ SubSeq(text.chars, k, k + Len(lit) - 1) = lit

\* The first line of what the handler of a command sends.
RepliesOf(lit) ==
    CASE lit = CmdStart -> {"Welcome to GroceryBot!"}
      [] lit = CmdHelp -> {"GroceryBot Help"}
      [] lit = CmdCategories -> {"Available Categories:"}
      [] lit = CmdList -> {"Your shopping list is empty.", "Shopping List"}
      [] lit = CmdAdd -> {"Select a category for the new item:"}
      [] lit = CmdRemove -> {"Your shopping list is empty.", "Select an item to remove:"}
      [] lit = CmdClear -> {"Your shopping list has been cleared."}

\* The handler of the command has run for the chat: its message is out.
Answered(lit, chatId) ==
    \E j \in 1..Len(out) :
        /\ out[j].api = "sendMessage"
        /\ out[j].chat = chatId
        /\ out[j].text.template \in RepliesOf(lit)

\* The message is also taken for the quantity of the pending add.
TakenAsQuantity ==
    AwaitingQuantityPhase(StateBefore) /\ ~TextStartsWithSlash(TheUpdate.text)

\* C14 (as amended): a message whose text holds a command literal at any
\* position runs the handler of that command in every phase of the chat.
\* One that holds "/clear" leaves the stored list empty and one that holds
\* "/add" leaves the chat in AWAITING_NAME with no category and no name,
\* unless the message is also taken for the quantity of a pending add: then
\* the add that completes deletes the state again, and the append and the
\* clear race for the file, which ends holding no item, the new item alone,
\* or the list before followed by the new item.
C14_UnanchoredDispatch ==
    (Handled /\ TheUpdate.update = "message" /\ TheUpdate.text # Undefined) =>
        \A lit \in Commands : Occurs(lit, TheUpdate.text) =>
            /\ Answered(lit, TheUpdate.chat)
            /\ lit = CmdClear =>
                  IF TakenAsQuantity
                  THEN LET item == NewItem(StateBefore, TheUpdate.text)
                       IN  Stored \in {<<>>, <<item>>, Append(Base, item)}
                  ELSE Stored = <<>>
            /\ lit = CmdAdd =>
                  StateAfter = IF TakenAsQuantity THEN NoState
                               ELSE [state |-> AWAITING_NAME]

\* C14 as stated: in every phase, a message that holds "/clear" leaves the
\* stored list empty and one that holds "/add" leaves the chat in
\* AWAITING_NAME with no category.
C14_UnanchoredDispatchAnyPhase ==
    (Handled /\ TheUpdate.update = "message" /\ TheUpdate.text # Undefined) =>
        \A lit \in Commands : Occurs(lit, TheUpdate.text) =>
            /\ Answered(lit, TheUpdate.chat)
            /\ lit = CmdClear => Stored = <<>>
            /\ lit = CmdAdd => StateAfter = [state |-> AWAITING_NAME]

\* "no /clear" has been sent to a chat at its name prompt while a list was
\* stored: the text is the name and the list is empty.
C14_ClearInsideName ==
    /\ Handled
    /\ TheUpdate = MessageUpdate(1, NoClear)
    /\ StateBefore = [state |-> AWAITING_NAME, category |-> JsString(Fruits)]
    /\ Base # <<>>
    /\ Stored = <<>>
    /\ StateAfter.name = NoClear

(***************************************************************************)
(* A save that fails (SpecFaults).                                         *)
(***************************************************************************)
Dispatch(s, u) ==
    IF u.update = "message" THEN ProcessMessage(s, u.chat, u.text)
    ELSE ProcessCallbackQuery(s, u.chat, u.data)

\* The updates that save a list when the stored list is s: the quantity of
\* a pending add, a press of remove_i or toggle_i with i a position of s,
\* and /clear.
SavingUpdates(s) ==
    {MessageUpdate(c, Six) : c \in {d \in Chats : AwaitingQuantityPhase(addItemStates[d])}}
    \cup {MessageUpdate(c, JsString(CmdClear)) : c \in Chats}
    \cup {CallbackQueryUpdate(c, PrefixRemove \o token) :
                c \in Chats, token \in {k \in IndexTokens : ValidPosition(k, s)}}
    \cup {CallbackQueryUpdate(c, PrefixToggle \o token) :
                c \in Chats, token \in {k \in IndexTokens : ValidPosition(k, s)}}

\* The states in which the handlers of s end when fs.writeFile is rejected
\* at the given stage: "open" before the file is opened, "write" after it
\* has been truncated.
RECURSIVE EndsFailing(_, _)
EndsFailing(s, stage) ==
    IF s.inflight = <<>> THEN {s}
    ELSE IF s.inflight[1].pc = stage THEN EndsFailing(WriteFails(s, 1), stage)
    ELSE EndsFailing(Resume(s, 1), stage)

\* What the handler of the update sends first when it has saved.
ConfirmationOf(u) ==
    IF u.update = "message"
    THEN IF u.text = JsString(CmdClear) THEN "Your shopping list has been cleared."
         ELSE "Added to your list:"
    ELSE IF StartsWith(u.data, PrefixRemove) THEN "Removed from your list:"
    ELSE "Shopping List Checkoff"

\* The handler of u ended in t as it ends in ok, where the save went
\* through: the same calls in the same order, the first of them the
\* confirmation, and the same conversation states.
EndsAsSaved(u, t, ok) ==
    /\ t.out = ok.out
    /\ t.out # <<>>
    /\ t.out[1].chat = u.chat
    /\ t.out[1].text.template = ConfirmationOf(u)
    /\ t.addItemStates = ok.addItemStates
    /\ (u.update = "message" /\ u.text = Six) => t.addItemStates[u.chat] = NoState

\* The file holds what a load can give to a handler.
Loadable == "items" \in DOMAIN loadShoppingList(file)

\* C15 (as amended): when fs.writeFile is rejected during an add
\* completion, a remove, a toggle or a clear, the error goes no further than
\* saveShoppingList: the handler sends what it sends after a save, and the
\* add completion deletes the conversation state.  The new list is not
\* stored: the stored list is the one before when the file could not be
\* opened, and empty when the failure came after the file was truncated.
C15_SaveFailureSilent ==
    (inflight = <<>> /\ Loadable) =>
        LET s == Stored
        IN  \A u \in SavingUpdates(s) :
                LET d == Dispatch(State, u)
                IN  \A ok \in Quiesce(d) :
                        /\ \A t \in EndsFailing(d, "open") :
                              ListOf(t) = s /\ EndsAsSaved(u, t, ok)
                        /\ \A t \in EndsFailing(d, "write") :
                              ListOf(t) = <<>> /\ EndsAsSaved(u, t, ok)

\* C15 as stated: whenever the write fails the stored list keeps the value
\* it had before.
C15_SaveFailureKeepsList ==
    (inflight = <<>> /\ Loadable) =>
        LET s == Stored
        IN  \A u \in SavingUpdates(s) :
                LET d == Dispatch(State, u)
                IN  \A ok \in Quiesce(d) :
                        \A t \in EndsFailing(d, "open") \cup EndsFailing(d, "write") :
                            ListOf(t) = s /\ EndsAsSaved(u, t, ok)

\* An add has been confirmed and its state deleted, and the list that held
\* two items before still holds those two and no other.
C15_AddLost ==
    /\ inflight = <<>>
    /\ Loadable
    /\ Stored = <<ItemA, ItemB>>
    /\ \E c \in Chats :
          /\ addItemStates[c] = NoState
          /\ out = <<SendMessage(c,
                        Template("Added to your list:", <<GlyphOf(JsString(Other)), Milk, Six>>),
                        NoOptions)>>

(***************************************************************************)
(* safeSendMessage (SpecSend).                                             *)
(***************************************************************************)
Propagated ==
    \E j \in 1..Len(out) : out[j].api = "unhandledRejection"

\* The calls of bot.sendMessage made so far.
Sends == SelectSeq(out, LAMBDA e : e.api = "bot.sendMessage")

\* C16 as stated: after a rejection as unparsable the message is sent once
\* more with the formatting characters removed, and when that is rejected
\* too an apology is sent; after any other rejection an apology is sent; no
\* more than three sends are made, and no rejection leaves safeSendMessage.
C16_SafeSendNeverThrows ==
    /\ Len(Sends) <= 3
    /\ ~Propagated
    /\ Len(Sends) >= 2 =>
          LET first == Sends[1].call
          IN  IF Sends[1].error = ParseError
              THEN /\ Sends[2].call =
                        SendMessage(first.chat, JsString(Strip(first.text.chars)), NoOptions)
                   /\ Len(Sends) = 3 =>
                        /\ Sends[2].error # Accepted
                        /\ Sends[3].call = SendMessage(first.chat, DisplayApology, NoOptions)
              ELSE /\ Sends[1].error = OtherError
                   /\ Sends[2].call = SendMessage(first.chat, ProcessApology, NoOptions)
                   /\ Len(Sends) = 2

(***************************************************************************)
(* Category buttons.                                                       *)
(***************************************************************************)
IsCategoryPress ==
    /\ TheUpdate.update = "callback_query"
    /\ Len(TheUpdate.data) > Len(PrefixCategory)
    /\ SubSeq(TheUpdate.data, 1, Len(PrefixCategory)) = PrefixCategory

\* The key the button carries after "category_".
PressedKey == SubSeq(TheUpdate.data, Len(PrefixCategory) + 1, Len(TheUpdate.data))

\* C17: a press of category_<key> leaves the chat in AWAITING_NAME with the
\* category <key> and nothing else (no name), whatever state the chat had
\* (none, AWAITING_NAME without or with a category, AWAITING_QUANTITY with
\* a name); the file is untouched, and the chat is asked for the name.
C17_CategoryPressResets ==
    (Handled /\ IsCategoryPress) =>
        /\ StateAfter = [state |-> AWAITING_NAME, category |-> JsString(PressedKey)]
        /\ DOMAIN StateAfter = {"state", "category"}
        /\ file = scenario.file
        /\ out = <<SendMessage(TheUpdate.chat, Text("Enter the item name:"), NoOptions),
                   AnswerCallbackQuery(TheUpdate.chat, NoOptions)>>

\* The button "fruits" has been pressed in a chat that was at its quantity
\* prompt with the category "other" and the name "Milk", while a list was
\* stored.
C17_PressedAtQuantityPrompt ==
    /\ Handled
    /\ TheUpdate = CallbackQueryUpdate(1, PrefixCategory \o Fruits)
    /\ StateBefore = AwaitingQuantity(Other, Milk)
    /\ StateAfter = [state |-> AWAITING_NAME, category |-> JsString(Fruits)]
    /\ Base # <<>>

(***************************************************************************)
(* One dialogue, several handlers (SpecInterleaved).                       *)
(***************************************************************************)
\* The positions of the stored list that hold an item of the given name.
Named(name) == {j \in 1..Len(Stored) : Get(Stored[j], "name") = name}

\* C18 as stated: one recorded name yields no more than one stored item,
\* however many messages arrive while the chat is in AWAITING_QUANTITY.  The
\* name "Rice" is recorded once, in the dialogue chat 1 is in at the start,
\* and no stored list holds it to begin with.
C18_OneItemPerFlow == Cardinality(Named(Rice)) <= 1

\* C19 as stated: when a quantity handler ends while its chat is in
\* AWAITING_NAME (an /add or a category button has started a new dialogue
\* since the handler read the state), the state of the new dialogue is
\* still there after it.
C19_CompletionKeepsNewFlow ==
    [][\A i \in 1..Len(inflight) :
          (/\ inflight[i].kind = "quantity"
           /\ inflight[i].pc = "reply"
           /\ inflight' = DropAt(inflight, i)
           /\ AwaitingName(addItemStates[inflight[i].chat]))
          => addItemStates'[inflight[i].chat] = addItemStates[inflight[i].chat]]_vars

(***************************************************************************)
(* The chats next to each other (SpecInterleaved).                         *)
(***************************************************************************)
\* The step dispatches an update of the chat to at least one listener that
\* goes on to an I/O: every handler it adds belongs to the chat.
DispatchedFor(chatId) ==
    /\ nUpdates' = nUpdates + 1
    /\ Len(inflight') > Len(inflight)
    /\ \A i \in (Len(inflight) + 1)..Len(inflight') : inflight'[i].chat = chatId

\* The step is the return of a handler of the chat.
ReturnedFor(chatId) ==
    /\ nUpdates' = nUpdates
    /\ \E i \in 1..Len(inflight) :
          /\ inflight[i].chat = chatId
          /\ inflight[i].pc = "reply"
          /\ inflight' = DropAt(inflight, i)

\* C20: whatever handlers are in flight, the conversation state of a chat
\* is created, changed or deleted only by a step of that chat: the dispatch
\* of one of its updates or the return of one of its handlers.  A step of
\* chat A leaves the state of every other chat B as it was.
C20_ChatsIsolated ==
    [][\A b \in Chats :
          addItemStates'[b] # addItemStates[b] => DispatchedFor(b) \/ ReturnedFor(b)]_vars

\* Chat 1 has completed its add while a quantity handler of chat 2 is in
\* flight: the item of chat 1 is in the file chat 2 is about to load, and
\* the dialogue of chat 2 is as it was.
C20_OneChatDone ==
    /\ addItemStates[1] = NoState
    /\ addItemStates[2] = AwaitingQuantity(Other, Undefined)
    /\ \E i \in 1..Len(inflight) :
          /\ inflight[i].chat = 2
          /\ inflight[i].kind = "quantity"
          /\ inflight[i].pc = "read"
    /\ \A i \in 1..Len(inflight) : inflight[i].chat = 2
    /\ Stored # <<>>
    /\ Stored[Len(Stored)] = RiceItem

====
